---- MODULE Spec2Model ----
(***************************************************************************)
(* Model of splunk_search.py: one run of main(), i.e. create_search_job,  *)
(* wait_for_job, fetch_results and write_results, with the HTTP server,    *)
(* the clock and the file system as the environment.                       *)
(* Strings are sequences of one-character strings, so that lower(),        *)
(* strip(), str() and the pathlib name operations are computed.            *)
(***************************************************************************)
EXTENDS Integers, Sequences, FiniteSets, TLC

\* ------------------------------------------------------------------ bounds
MaxTimeout == 2     \* largest poll_timeout_seconds explored
MaxPoll == 2        \* largest poll_interval_seconds explored
MaxAttempts == 2    \* cap on permission-denied retries explored

\* ----------------------------------------------------------------- strings
Uppers == <<"A","B","C","D","E","F","G","H","I","J","K","L","M",
            "N","O","P","Q","R","S","T","U","V","W","X","Y","Z">>
Lowers == <<"a","b","c","d","e","f","g","h","i","j","k","l","m",
            "n","o","p","q","r","s","t","u","v","w","x","y","z">>

\* str.lower() on one character
LowerChar(c) ==
    IF \E i \in 1..Len(Uppers) : Uppers[i] = c
    THEN Lowers[CHOOSE i \in 1..Len(Uppers) : Uppers[i] = c]
    ELSE c

\* str.lower()
Lower(s) == [i \in 1..Len(s) |-> LowerChar(s[i])]

\* the characters str.strip() removes
Whitespace == {" ", "\t", "\n"}

\* str.lstrip()
LStrip(s) ==
    IF \A i \in 1..Len(s) : s[i] \in Whitespace THEN <<>>
    ELSE LET f == CHOOSE i \in 1..Len(s) :
                     /\ s[i] \notin Whitespace
                     /\ \A j \in 1..(i - 1) : s[j] \in Whitespace
         IN SubSeq(s, f, Len(s))

\* str.rstrip()
RStrip(s) ==
    IF \A i \in 1..Len(s) : s[i] \in Whitespace THEN <<>>
    ELSE LET l == CHOOSE i \in 1..Len(s) :
                     /\ s[i] \notin Whitespace
                     /\ \A j \in (i + 1)..Len(s) : s[j] \in Whitespace
         IN SubSeq(s, 1, l)

\* str.strip()
Strip(s) == RStrip(LStrip(s))

\* str.startswith(prefix)
StartsWith(s, prefix) ==
    /\ Len(s) >= Len(prefix)
    /\ SubSeq(s, 1, Len(prefix)) = prefix

Digits == <<"0","1","2","3","4","5","6","7","8","9">>

RECURSIVE ToStr(_)
\* str(n) for n >= 0
ToStr(n) == IF n < 10 THEN <<Digits[n + 1]>>
            ELSE ToStr(n \div 10) \o <<Digits[(n % 10) + 1]>>

\* the dates datetime.now() may return during a run, as days of one month:
\* midnight may pass between two readings
Days == {1, 2}

\* strftime('%Y%m%d') of the d-th day of the month the run happens in
DateStamp(d) == <<"2","0","2","6","1","1">> \o (IF d < 10 THEN <<"0">> ELSE <<>>) \o ToStr(d)

\* --------------------------------------------------------- status responses
S_done == <<"d","o","n","e">>
S_failed == <<"f","a","i","l","e","d">>
S_canceled == <<"c","a","n","c","e","l","e","d">>

DispatchStates ==
    { S_done, <<"D","O","N","E">>,
      S_failed, <<"F","a","i","l","e","d">>,
      S_canceled, <<"C","A","N","C","E","L","E","D">>,
      <<"R","U","N","N","I","N","G">>, <<>> }

\* the "content" object of a status response: each key may be absent
Contents ==
    { c \in [hasState : BOOLEAN, dispatchState : DispatchStates,
             hasDone : BOOLEAN, isDone : BOOLEAN] :
        /\ (~c.hasState => c.dispatchState = <<>>)
        /\ (~c.hasDone => c.isDone = FALSE) }

NoContent == [hasState |-> FALSE, dispatchState |-> <<>>, hasDone |-> FALSE, isDone |-> FALSE]

\* content.get("dispatchState", "")
GetDispatchState(content) == IF content.hasState THEN content.dispatchState ELSE <<>>

\* content.get("isDone", False)
GetIsDone(content) == IF content.hasDone THEN content.isDone ELSE FALSE

IsTerminalSuccess_OnlyFlag(content) == GetIsDone(content)

\* if is_done or dispatch_state.lower() == "done"
IsTerminalSuccess(content) ==
    GetIsDone(content) \/ Lower(GetDispatchState(content)) = S_done

\* if dispatch_state.lower() in ("failed", "canceled")
IsTerminalFailure(content) ==
    Lower(GetDispatchState(content)) \in {S_failed, S_canceled}

TimedOut_AtLeast(elapsed_, timeout_) == elapsed_ >= timeout_

TimedOut_Late(elapsed_, timeout_) == elapsed_ > timeout_ + 1

\* if time.time() - start > timeout
TimedOut(elapsed_, timeout_) == elapsed_ > timeout_

AfterSleep_Double(elapsed_, poll_) == elapsed_ + 2 * poll_

\* time.sleep(poll): the clock after the sleep
AfterSleep(elapsed_, poll_) == elapsed_ + poll_

\* ------------------------------------------------------------------- sids
Sids == {"sid1", "sid2"}

\* the value of payload.get("sid"): a string, or None when the key is absent
SidValues == [has : BOOLEAN, val : Sids \cup {""}]
NoSid == [has |-> FALSE, val |-> ""]

\* f"{sid}" as it appears in f"{base_url}/{sid}"
SidText(s) == IF s.has THEN s.val ELSE "None"

StatusEndpoint(s) == SidText(s)

ResultsEndpoint_Other(s) == "other"

ResultsEndpoint(s) == SidText(s)

\* ------------------------------------------------------------------ paths
\* the file names (Path.name) of output_file explored: out.json, out, out.tar.gz
BaseNames == { <<"o",".","j">>, <<"o">>, <<"o",".","t",".","g">> }

\* str.rfind('.') as a 1-based index, 0 when there is no dot
RFindDot(name) ==
    IF \E i \in 1..Len(name) : name[i] = "."
    THEN CHOOSE i \in 1..Len(name) :
            /\ name[i] = "."
            /\ \A j \in (i + 1)..Len(name) : name[j] # "."
    ELSE 0

\* PurePath.suffix
PathSuffix(name) ==
    LET i == RFindDot(name)
    IN IF 1 < i /\ i < Len(name) THEN SubSeq(name, i, Len(name)) ELSE <<>>

\* PurePath.stem
PathStem(name) ==
    LET i == RFindDot(name)
    IN IF 1 < i /\ i < Len(name) THEN SubSeq(name, 1, i - 1) ELSE name

\* name.lstrip('.')
LStripDots(name) ==
    IF \A i \in 1..Len(name) : name[i] = "." THEN <<>>
    ELSE LET f == CHOOSE i \in 1..Len(name) :
                     /\ name[i] # "."
                     /\ \A j \in 1..(i - 1) : name[j] = "."
         IN SubSeq(name, f, Len(name))

\* "".join(PurePath.suffixes)
JoinedSuffixes(name) ==
    IF Len(name) > 0 /\ name[Len(name)] = "." THEN <<>>
    ELSE LET n == LStripDots(name)
         IN IF \E i \in 1..Len(n) : n[i] = "."
            THEN LET f == CHOOSE i \in 1..Len(n) :
                              /\ n[i] = "."
                              /\ \A j \in 1..(i - 1) : n[j] # "."
                 IN SubSeq(n, f, Len(n))
            ELSE <<>>

\* build_output_path(base_path, append_date, suffix_number) on the file name;
\* suffix_number 0 stands for both None and 0 (both falsy), day is the
\* date datetime.now() returns during the call
build_output_path(base_path_, append_date_, suffix_number, day) ==
    LET joined == JoinedSuffixes(base_path_)
        suffixes == IF joined # <<>> THEN joined ELSE PathSuffix(base_path_)
        stem0 == PathStem(base_path_)
        stem1 == IF append_date_ THEN stem0 \o <<"_">> \o DateStamp(day) ELSE stem0
        stem2 == IF suffix_number # 0 THEN stem1 \o <<"-">> \o ToStr(suffix_number) ELSE stem1
    IN stem2 \o suffixes

NextCandidate_FromPrevious(base_path_, output_, append_date_, attempt_, day) ==
    build_output_path(output_, append_date_, attempt_, day)

\* output = build_output_path(base_path, append_date_to_filename, attempt)
NextCandidate(base_path_, output_, append_date_, attempt_, day) ==
    build_output_path(base_path_, append_date_, attempt_, day)

CaughtByRetry_AnyOSError(exc) == exc \in {"PermissionError", "OSErrorOpen"}

\* except PermissionError:
CaughtByRetry(exc) == exc = "PermissionError"

\* ---------------------------------------------------------------- results
\* bodies of the results response: in json mode the "results" key may be
\* absent, a list of rows or null; in csv mode the body is text
JsonBodies ==
    { [hasResults |-> FALSE, kind |-> "list", rows |-> <<>>],
      [hasResults |-> TRUE, kind |-> "list", rows |-> <<>>],
      [hasResults |-> TRUE, kind |-> "list", rows |-> <<"{r1}", "{r2}">>],
      [hasResults |-> TRUE, kind |-> "null", rows |-> <<>>] }

CsvBodies == { <<>>, <<"h","\n","1">> }

NoResults == [kind |-> "none", rows |-> <<>>, text |-> <<>>]

\* resp.json().get("results", [])
JsonResults(body) ==
    IF body.hasResults THEN [kind |-> body.kind, rows |-> body.rows, text |-> <<>>]
    ELSE [kind |-> "list", rows |-> <<>>, text |-> <<>>]

\* resp.text
CsvResults(body) == [kind |-> "text", rows |-> <<>>, text |-> body]

RECURSIVE JsonItems(_)
\* the items of a non-empty list as json.dumps(..., indent=2) lays them out
JsonItems(rows) ==
    IF Len(rows) = 1 THEN <<"\n", " ", " ", rows[1]>>
    ELSE <<"\n", " ", " ", rows[1], ",">> \o JsonItems(Tail(rows))

\* json.dumps(results, indent=2)
JsonDumps(r) ==
    IF r.kind = "null" THEN <<"n","u","l","l">>
    ELSE IF r.rows = <<>> THEN <<"[", "]">>
    ELSE <<"[">> \o JsonItems(r.rows) \o <<"\n", "]">>

\* the text one attempt of write_results writes to the file
WrittenText(r, mode) == IF mode = "json" THEN JsonDumps(r) ELSE r.text

\* len(results) raises TypeError for None
LenRaises(r) == r.kind = "null"

\* ------------------------------------------------------------ file system
NoFiles == [n \in {} |-> <<>>]

\* the file at name is created or truncated and holds text
WithFile(fs, name, text) ==
    [n \in (DOMAIN fs) \cup {name} |-> IF n = name THEN text ELSE fs[n]]

OldText == <<"o","l","d">>

StageAfter_FetchFirst(stage) ==
    CASE stage = "create" -> "fetch"
      [] stage = "fetch" -> "poll"
      [] stage = "poll" -> "write_init"
      [] stage = "write" -> "exit"

\* the order of the calls in main's try block
StageAfter(stage) ==
    CASE stage = "create" -> "poll"
      [] stage = "poll" -> "fetch"
      [] stage = "fetch" -> "write_init"
      [] stage = "write" -> "exit"

\* ------------------------------------------------------ search normalisation
SearchPrefix == <<"s","e","a","r","c","h"," ">>

\* the value of data["search"]: create_search_job prepends the prefix to the
\* stripped text when the stripped, lowered text does not start with it, and
\* otherwise leaves the text as it was given
SubmittedSearch(search) ==
    IF ~StartsWith(Lower(Strip(search)), SearchPrefix)
    THEN SearchPrefix \o Strip(search)
    ELSE search

\* search texts explored: leading whitespace, a prefix in some casing, a
\* body, trailing whitespace
SearchTexts ==
    { lead \o prefix \o body \o trail :
        lead \in {<<>>, <<" ">>, <<"\t"," ">>},
        prefix \in {<<>>, <<"s","e","a","r","c","h"," ">>, <<"S","E","A","R","C","H"," ">>, <<"S","e","a","r","c","h"," "," ">>, <<"s","e","a","r","c","h">>},
        body \in {<<>>, <<"x">>, <<"s","e","a","r","c","h"," ","x">>},
        trail \in {<<>>, <<" ">>} }

\* ---------------------------------------------------------------- proxy URLs
Range(s) == {s[i] : i \in 1..Len(s)}

\* 1 + str.find for any of chars: the first position holding one, 0 if none
Find(s, chars) ==
    LET I == {i \in 1..Len(s) : s[i] \in chars}
    IN IF I = {} THEN 0 ELSE CHOOSE i \in I : \A j \in I : i <= j

\* 1 + str.rfind for any of chars: the last position holding one, 0 if none
RFind(s, chars) ==
    LET I == {i \in 1..Len(s) : s[i] \in chars}
    IN IF I = {} THEN 0 ELSE CHOOSE i \in I : \A j \in I : i >= j

\* s[:n] and s[n:]
Take(s, n) == SubSeq(s, 1, n)

Drop(s, n) == SubSeq(s, n + 1, Len(s))

\* sub in s
Contains(s, sub) ==
    \E i \in 1..(Len(s) - Len(sub) + 1) : SubSeq(s, i, i + Len(sub) - 1) = sub

\* an optional string: None, or a text
None == [has |-> FALSE, text |-> <<>>]

Some(text) == [has |-> TRUE, text |-> text]

\* urllib.parse.scheme_chars
SchemeChars == Range(Lowers) \cup Range(Uppers) \cup Range(Digits) \cup {"+", "-", "."}

\* the position of the ':' that ends the scheme: the first ':' when the text
\* before it starts with a letter and holds scheme characters only, else 0
SchemeEnd(url) ==
    LET colon == Find(url, {":"})
    IN IF /\ colon > 1
          /\ url[1] \in Range(Lowers) \cup Range(Uppers)
          /\ \A i \in 1..(colon - 1) : url[i] \in SchemeChars
       THEN colon ELSE 0

\* the netloc of the text after the scheme: what follows '//' up to the
\* first of '/', '?', '#'
NetlocOf(rest) ==
    LET delim == Find(Drop(rest, 2), {"/", "?", "#"})
    IN IF ~StartsWith(rest, <<"/", "/">>) THEN <<>>
       ELSE IF delim = 0 THEN Drop(rest, 2)
       ELSE SubSeq(rest, 3, delim + 1)

\* path, query and fragment of the text after the netloc
SplitTail(scheme, netloc, tail) ==
    LET hash == Find(tail, {"#"})
        qmark == Find(tail, {"?"})
        pathEnd == IF qmark # 0 /\ (hash = 0 \/ qmark < hash) THEN qmark - 1
                   ELSE IF hash # 0 THEN hash - 1
                   ELSE Len(tail)
    IN [raises   |-> ("[" \in Range(netloc)) # ("]" \in Range(netloc)),
        scheme   |-> scheme,
        netloc   |-> netloc,
        path     |-> Take(tail, pathEnd),
        query    |-> IF pathEnd = qmark - 1
                     THEN SubSeq(tail, qmark + 1, IF hash = 0 THEN Len(tail) ELSE hash - 1)
                     ELSE <<>>,
        fragment |-> IF hash = 0 THEN <<>> ELSE Drop(tail, hash)]

\* urllib.parse.urlparse, for texts without ';' (no params part): the
\* scheme, the netloc, then fragment, query and path; ValueError for an
\* unbalanced bracket in the netloc
urlparse(url) ==
    SplitTail(Lower(Take(url, SchemeEnd(url) - 1)),
              NetlocOf(Drop(url, SchemeEnd(url))),
              Drop(url, SchemeEnd(url) + (IF StartsWith(Drop(url, SchemeEnd(url)), <<"/", "/">>)
                                           THEN 2 + Len(NetlocOf(Drop(url, SchemeEnd(url))))
                                           ELSE 0)))

\* the part of a netloc before its last '@'
UserInfo(netloc) == Take(netloc, RFind(netloc, {"@"}) - 1)

\* ParseResult.username
Username(netloc) ==
    LET colon == Find(UserInfo(netloc), {":"})
    IN IF RFind(netloc, {"@"}) = 0 THEN None
       ELSE IF colon = 0 THEN Some(UserInfo(netloc))
       ELSE Some(Take(UserInfo(netloc), colon - 1))

\* ParseResult.password
Password(netloc) ==
    LET colon == Find(UserInfo(netloc), {":"})
    IN IF RFind(netloc, {"@"}) = 0 \/ colon = 0 THEN None
       ELSE Some(Drop(UserInfo(netloc), colon))

\* the part of a netloc after its last '@' (no brackets: not an IPv6 literal)
HostInfo(netloc) == Drop(netloc, RFind(netloc, {"@"}))

\* ParseResult.hostname, <<>> standing for None
Hostname(netloc) ==
    LET colon == Find(HostInfo(netloc), {":"})
    IN Lower(IF colon = 0 THEN HostInfo(netloc) ELSE Take(HostInfo(netloc), colon - 1))

RECURSIVE ParseInt(_)
\* int(digits)
ParseInt(digits) ==
    IF digits = <<>> THEN 0
    ELSE ParseInt(Take(digits, Len(digits) - 1)) * 10
         + (CHOOSE d \in 0..9 : Digits[d + 1] = digits[Len(digits)])

\* ParseResult.port: None when there is no port text, the number when the
\* text is all digits and at most 65535, ValueError otherwise
Port(netloc) ==
    LET colon == Find(HostInfo(netloc), {":"})
        text == IF colon = 0 THEN <<>> ELSE Drop(HostInfo(netloc), colon)
        isNumber == \A i \in 1..Len(text) : text[i] \in Range(Digits)
    IN [none   |-> text = <<>>,
        raises |-> text # <<>> /\ (~isNumber \/ ParseInt(text) > 65535),
        value  |-> IF text # <<>> /\ isNumber THEN ParseInt(text) ELSE 0]

\* urllib.parse.urlunparse with empty params, for a non-empty netloc
urlunparse(scheme, netloc, path, query, fragment) ==
    LET rooted == IF path # <<>> /\ path[1] # "/" THEN <<"/">> \o path ELSE path
    IN (IF scheme # <<>> THEN scheme \o <<":">> ELSE <<>>)
       \o <<"/", "/">> \o netloc \o rooted
       \o (IF query # <<>> THEN <<"?">> \o query ELSE <<>>)
       \o (IF fragment # <<>> THEN <<"#">> \o fragment ELSE <<>>)

\* username_placeholder, password_placeholder
Placeholder == <<"*", "*", "*", "*">>

\* what a call returns: a value, or the exception it raises
Returned(value) == [raises |-> FALSE, value |-> value]

Raised == [raises |-> TRUE, value |-> <<>>]

\* the netloc mask_proxy_credentials builds: placeholders for the
\* credentials, then the host and the port when it is not 0
MaskedNetloc(password, hostname, port) ==
    Placeholder
    \o (IF password.text # <<>> THEN <<":">> \o Placeholder ELSE <<>>)
    \o (IF hostname # <<>> THEN <<"@">> \o hostname ELSE <<>>)
    \o (IF hostname # <<>> /\ port # 0 THEN <<":">> \o ToStr(port) ELSE <<>>)

\* mask_proxy_credentials once urlparse has returned without raising and
\* the username is not empty
MaskParsed(parsed, port) ==
    IF port.raises THEN Raised
    ELSE Returned(urlunparse(parsed.scheme,
                             MaskedNetloc(Password(parsed.netloc), Hostname(parsed.netloc), port.value),
                             parsed.path, parsed.query, parsed.fragment))

\* mask_proxy_credentials once urlparse has been called
MaskWith(proxy_url, parsed) ==
    IF proxy_url = <<>> THEN Returned(<<>>)
    ELSE IF parsed.raises THEN Returned(proxy_url)
    ELSE IF Username(parsed.netloc).text = <<>> THEN Returned(proxy_url)
    ELSE MaskParsed(parsed, Port(parsed.netloc))

\* mask_proxy_credentials: the text unchanged when it is empty, when
\* urlparse raises or when the username is None or empty; otherwise the
\* text rebuilt with placeholders. parsed.port is read outside the try, so
\* its ValueError leaves the function.
mask_proxy_credentials(proxy_url) == MaskWith(proxy_url, urlparse(proxy_url))

\* proxy URLs explored: with and without scheme, the forms of user
\* information, a host, the forms of port, and a tail
ProxyUrls ==
    { scheme \o userinfo \o host \o port \o tail :
        scheme \in {<<"h","t","t","p",":","/","/">>, <<>>},
        userinfo \in {<<>>, <<"a","b","@">>, <<"a","b",":","c","d","@">>, <<":","c","d","@">>, <<"a","b",":","@">>},
        host \in {<<"h",".","x">>, <<"H">>, <<"[","h">>},
        port \in {<<>>, <<":","8">>, <<":","0">>, <<":","x">>, <<":","7","0","0","0","0">>},
        tail \in {<<>>, <<"/","p","?","q">>, <<"#","f">>} }

\* the keys of a proxies dict
K_http == <<"h","t","t","p">>

K_https == <<"h","t","t","p","s">>

\* a dict is a function on its keys; this is {}
EmptyDict == [k \in {} |-> <<>>]

\* resolve_proxies once the configured value is stripped and the texts for
\* the log lines are computed
ResolveWith(value, env_proxies, maskedValue, maskedEnv) ==
    IF value # <<>>
    THEN IF maskedValue.raises
         THEN [raises |-> TRUE, none |-> FALSE, proxies |-> EmptyDict, logged |-> {}]
         ELSE [raises |-> FALSE, none |-> FALSE,
               proxies |-> [k \in {K_http, K_https} |-> value],
               logged |-> {maskedValue.value}]
    ELSE IF DOMAIN env_proxies # {}
    THEN IF \E k \in DOMAIN env_proxies : maskedEnv[k].raises
         THEN [raises |-> TRUE, none |-> FALSE, proxies |-> EmptyDict, logged |-> {}]
         ELSE [raises |-> FALSE, none |-> FALSE,
               proxies |-> env_proxies,
               logged |-> {maskedEnv[k].value : k \in DOMAIN env_proxies}]
    ELSE [raises |-> FALSE, none |-> TRUE, proxies |-> EmptyDict, logged |-> {}]

\* resolve_proxies, given the value of the config's proxy key and the dict
\* requests.utils.get_environ_proxies(base_url) returns: the proxies dict
\* (none for None), the masked texts handed to logging.info, or the
\* ValueError of mask_proxy_credentials
resolve_proxies(proxy_value, env_proxies) ==
    ResolveWith(Strip(proxy_value.text), env_proxies,
                mask_proxy_credentials(Strip(proxy_value.text)),
                [k \in DOMAIN env_proxies |-> mask_proxy_credentials(env_proxies[k])])

\* values of the config's proxy key explored: absent or empty, blank, padded,
\* with credentials, with credentials and a port that is no number
ProxyValues ==
    {None} \cup
    { Some(t) : t \in {<<>>, <<" ">>, <<" ","h","t","t","p",":","/","/","h",".","x",":","8"," ">>, <<"h","t","t","p",":","/","/","a","b",":","c","d","@","h",".","x",":","8">>, <<"h","t","t","p",":","/","/","a","b","@","h",".","x",":","x">>} }

\* proxy URLs found in the environment variables
EnvUrls == {<<"h","t","t","p",":","/","/","e",".","x",":","3">>,
            <<"h","t","t","p",":","/","/","e","f","@","e",".","x",":","x">>,
            <<"h","t","t","p",":","/","/","e","f",":","g","h","@","e",".","x",":","3">>}

\* results of get_environ_proxies explored
EnvProxies ==
    UNION { [keys -> EnvUrls] : keys \in SUBSET {K_http, K_https} }

\* the line print(f"  {scheme}: {value}") writes
ProxyLine(scheme, value) == <<" ", " ">> \o scheme \o <<":", " ">> \o value

\* test_connection once resolve_proxies has returned
TestWith(resolved, env_proxies, probeOk) ==
    IF resolved.raises THEN [raises |-> TRUE, status |-> -1, printed |-> {}]
    ELSE IF probeOk THEN [raises |-> FALSE, status |-> 0, printed |-> {}]
    ELSE IF ~resolved.none /\ DOMAIN resolved.proxies # {}
    THEN [raises |-> FALSE, status |-> 1,
          printed |-> {ProxyLine(k, resolved.proxies[k]) : k \in DOMAIN resolved.proxies}]
    ELSE [raises |-> FALSE, status |-> 1,
          printed |-> {ProxyLine(k, env_proxies[k]) : k \in DOMAIN env_proxies}]

\* test_connection after load_config: the return value and the proxy lines
\* printed. When the probe fails the values of `proxies or
\* get_environ_proxies(base_url)` are printed as they are.
test_connection(proxy_value, env_proxies, probeOk) ==
    TestWith(resolve_proxies(proxy_value, env_proxies), env_proxies, probeOk)

\* ------------------------------------------------------------------- state
VARIABLES
    pc,           \* position of the run: start, create, poll, sleep, fetch, write_init, write, exit
    exitStatus,   \* process exit status, -1 while the run is in progress
    raised,       \* the exception main's except clause caught, if any
    escaped,      \* the exception that left main uncaught, if any
    applog,       \* the warning and error records written with logging, in order
    poll,         \* poll_interval_seconds
    timeout,      \* poll_timeout_seconds
    output_mode,  \* "json" or "csv", after validate_output_mode
    base_path,    \* file name of output_file
    append_date,  \* append_date_to_output_file
    sid,          \* main's sid, the value create_search_job returned
    elapsed,      \* time.time() - start, in seconds
    pollOutcome,  \* how wait_for_job stands: none, running, success, failed, timeout, error
    fetchOutcome, \* how fetch_results ended: none, ok, error
    results,      \* main's results
    output,       \* write_results' output (file name)
    outputDay,    \* the date datetime.now() last returned (the date of the start
                  \* of the run before write_results reads it)
    attempt,      \* write_results' attempt
    attempts,     \* history: the write attempts made, with their outcome
    log,          \* history: HTTP requests, sleeps and write attempts, in order
    files,        \* the output directory: file name -> text
    files0,       \* the output directory when the run started: it holds the
                  \* output of an earlier run
    call,         \* a helper function called on its own: its name and arguments
    ret           \* what that call returned, once it has

vars == <<pc, exitStatus, raised, escaped, applog, poll, timeout, output_mode, base_path, append_date,
          sid, elapsed, pollOutcome, fetchOutcome, results, output,
          outputDay, attempt, attempts, log, files, files0, call, ret>>

config == <<poll, timeout, output_mode, base_path, append_date, files0>>

\* no helper is called on its own during a run of main
NoCall == [fn |-> "none"]

NoReturn == [done |-> FALSE]

\* s and t are the same text when case is ignored
EqualsIgnoringCase(s_, t_) ==
    /\ Len(s_) = Len(t_)
    /\ \A i \in 1..Len(s_) : LowerChar(s_[i]) = LowerChar(t_[i])

\* what a status response signals, read off the response itself: resp.ok is
\* FALSE for a transport or protocol error, resp.done is TRUE when isDone is
\* true, resp.state is the dispatchState class ("" when it is none of them)
Signals(kind, c) ==
    [ok |-> kind = "ok",
     done |-> kind = "ok" /\ c.hasDone /\ c.isDone,
     state |-> IF kind # "ok" \/ ~c.hasState THEN ""
               ELSE IF EqualsIgnoringCase(c.dispatchState, S_done) THEN "done"
               ELSE IF EqualsIgnoringCase(c.dispatchState, S_failed) THEN "failed"
               ELSE IF EqualsIgnoringCase(c.dispatchState, S_canceled) THEN "canceled"
               ELSE ""]

NoSignals == [ok |-> FALSE, done |-> FALSE, state |-> ""]

\* an entry of the history log: what happened, at which elapsed time, the sid
\* text a request addressed, and for a status request what came back
Event(ev, addr, resp) == [ev |-> ev, at |-> elapsed, addr |-> addr, resp |-> resp]

NoError == [type |-> "", detail |-> <<>>]

Init ==
    /\ pc = "start"
    /\ exitStatus = -1
    /\ raised = NoError
    /\ escaped = NoError
    /\ applog = <<>>
    /\ poll \in 1..MaxPoll
    /\ timeout \in 0..MaxTimeout
    /\ output_mode \in {"json", "csv"}
    /\ base_path \in BaseNames
    /\ append_date \in BOOLEAN
    /\ sid = NoSid
    /\ elapsed = 0
    /\ pollOutcome = "none"
    /\ fetchOutcome = "none"
    /\ results = NoResults
    /\ output = <<>>
    /\ outputDay \in {d \in Days : \A e \in Days : d <= e}
    /\ attempt = 0
    /\ attempts = <<>>
    /\ log = <<>>
    /\ files0 = WithFile(NoFiles, build_output_path(base_path, append_date, 0, outputDay), OldText)
    /\ files = files0
    /\ call = NoCall
    /\ ret = NoReturn

LogRecord(level, what) == [level |-> level, what |-> what]

FailWith_Swallowed(logged, type, detail) ==
    /\ pc' = "exit"
    /\ exitStatus' = 0
    /\ raised' = [type |-> type, detail |-> detail]
    /\ applog' = logged

\* an exception reaches main's except clause: logging.exception, sys.exit(1);
\* logged is what the failing call had logged before it raised
FailWith(logged, type, detail) ==
    /\ pc' = "exit"
    /\ exitStatus' = 1
    /\ raised' = [type |-> type, detail |-> detail]
    /\ applog' = Append(logged, LogRecord("ERROR", type))

Fail(type, detail) == FailWith(applog, type, detail)

\* --------------------------------------------------- main before the try
S_json == <<"j","s","o","n">>
S_csv == <<"c","s","v">>

\* spellings of output_mode in the config file
RawModes == { S_json, <<" ","J","S","O","N">>, S_csv, <<"C","s","v"," ">>,
              <<"x","m","l">>, <<>> }

\* the config file as main finds it: whether it exists, which sections and
\* required keys it has, whether the log directory can be made, and the
\* output_mode it gives (hasMode FALSE: the key is absent), the value of its
\* proxy key and the proxies of the environment
\* explored: complete files, files with one thing missing, and complete
\* files with each proxy setting
CompleteConfig ==
    [exists |-> TRUE, splunk |-> TRUE, logging |-> TRUE, logDirOk |-> TRUE,
     url |-> TRUE, token |-> TRUE, search |-> TRUE, output_file |-> TRUE,
     hasMode |-> TRUE, mode |-> S_json, proxy |-> None, env |-> EmptyDict]

ConfigFiles ==
    { [(IF d = "" THEN CompleteConfig ELSE [CompleteConfig EXCEPT ![d] = FALSE])
          EXCEPT !.hasMode = h, !.mode = m] :
        d \in {"", "exists", "splunk", "logging", "logDirOk",
                "url", "token", "search", "output_file"},
        h \in BOOLEAN, m \in RawModes }
    \cup { [CompleteConfig EXCEPT !.proxy = v, !.env = e] :
             v \in ProxyValues, e \in EnvProxies }

\* spl.get("output_mode", "json")
GetOutputMode(cfg) == IF cfg.hasMode THEN cfg.mode ELSE S_json

\* validate_output_mode: the normalised mode, <<>> standing for the ValueError
validate_output_mode(value) ==
    LET mode == Strip(Lower(value))
    IN IF mode \in {S_json, S_csv} THEN mode ELSE <<>>

\* the exception the statements of main before the try raise for this config
\* file, in the order of the statements; "" when none of them raises
StartupError(cfg) ==
    IF ~cfg.exists THEN "FileNotFoundError"
    ELSE IF ~cfg.splunk THEN "ValueError"
    ELSE IF ~cfg.logging THEN "ValueError"
    ELSE IF ~cfg.logDirOk THEN "OSError"
    ELSE IF ~cfg.url \/ ~cfg.token \/ ~cfg.search \/ ~cfg.output_file THEN "KeyError"
    ELSE IF validate_output_mode(GetOutputMode(cfg)) = <<>> THEN "ValueError"
    ELSE IF resolve_proxies(cfg.proxy, cfg.env).raises THEN "ValueError"
    ELSE ""

\* main from its first statement to the try: load_config, setup_logging and
\* the reading of the settings. An exception here is outside the try block:
\* it leaves main, the interpreter prints it and exits with status 1.
\* The settings a valid file gives are the values of the state variables.
StartRun(cfg) ==
    /\ pc = "start"
    /\ (StartupError(cfg) = "" =>
            validate_output_mode(GetOutputMode(cfg)) = (IF output_mode = "json" THEN S_json ELSE S_csv))
    /\ IF StartupError(cfg) # ""
       THEN /\ pc' = "exit"
            /\ exitStatus' = 1
            /\ escaped' = [type |-> StartupError(cfg), detail |-> <<>>]
       ELSE /\ pc' = "create"
            /\ UNCHANGED <<exitStatus, escaped>>
    /\ UNCHANGED <<config, call, ret, raised, applog, sid, elapsed, pollOutcome, fetchOutcome,
                   results, output, outputDay, attempt, attempts, log, files>>

RaiseForStatus_Ignored(kind) == FALSE

\* resp.raise_for_status(), and the network errors the request itself raises
RaiseForStatus(kind) == kind = "HTTPError"

\* create_search_job: the POST and the parse of its response.
\* kind is "ok" for a 2xx response with a JSON object body, "HTTPError" otherwise
CreateSearchJob(kind, s) ==
    /\ pc = "create"
    /\ log' = Append(log, Event("create", IF kind = "ok" THEN SidText(s) ELSE "",
                              [NoSignals EXCEPT !.ok = (kind = "ok")]))
    /\ IF ~RaiseForStatus(kind)
       THEN /\ sid' = s
            /\ elapsed' = 0
            /\ pc' = StageAfter("create")
            /\ UNCHANGED <<exitStatus, raised, applog>>
       ELSE /\ Fail(kind, <<>>)
            /\ UNCHANGED <<sid, elapsed>>
    /\ UNCHANGED <<config, call, ret, escaped, pollOutcome, fetchOutcome, results, output,
                   outputDay, attempt, attempts, files>>

\* wait_for_job, top of the loop with the timeout reached
PollTimeout ==
    /\ pc = "poll"
    /\ TimedOut(elapsed, timeout)
    /\ pollOutcome' = "timeout"
    /\ Fail("TimeoutError", <<>>)
    /\ UNCHANGED <<config, call, ret, escaped, sid, elapsed, fetchOutcome, results, output,
                   outputDay, attempt, attempts, log, files>>

\* wait_for_job, one iteration of the loop up to the sleep: the GET and the
\* reading of its response. kind is "ok", "HTTPError" (raise_for_status or a
\* network error) or "KeyError" (no entry/content in the body)
PollStatus(kind, content) ==
    /\ pc = "poll"
    /\ ~TimedOut(elapsed, timeout)
    /\ log' = Append(log, Event("status", StatusEndpoint(sid), Signals(kind, content)))
    /\ IF RaiseForStatus(kind) \/ kind = "KeyError"
       THEN /\ pollOutcome' = "error"
            /\ Fail(kind, <<>>)
       ELSE IF IsTerminalSuccess(content)
       THEN /\ pollOutcome' = "success"
            /\ pc' = StageAfter("poll")
            /\ UNCHANGED <<exitStatus, raised, applog>>
       ELSE IF IsTerminalFailure(content)
       THEN /\ pollOutcome' = "failed"
            /\ Fail("RuntimeError", GetDispatchState(content))
       ELSE /\ pollOutcome' = "running"
            /\ pc' = "sleep"
            /\ UNCHANGED <<exitStatus, raised, applog>>
    /\ UNCHANGED <<config, call, ret, escaped, sid, elapsed, fetchOutcome, results, output,
                   outputDay, attempt, attempts, files>>

\* wait_for_job: time.sleep(poll) at the end of an iteration
Sleep ==
    /\ pc = "sleep"
    /\ elapsed' = AfterSleep(elapsed, poll)
    /\ log' = Append(log, Event("sleep", "", NoSignals))
    /\ pc' = "poll"
    /\ UNCHANGED <<config, call, ret, escaped, exitStatus, raised, applog, sid, pollOutcome, fetchOutcome,
                   results, output, outputDay, attempt, attempts, files>>

\* fetch_results: the GET and the reading of its response
FetchResults(kind, body) ==
    /\ pc = "fetch"
    /\ log' = Append(log, Event("results", ResultsEndpoint(sid),
                                [NoSignals EXCEPT !.ok = (kind = "ok")]))
    /\ IF ~RaiseForStatus(kind)
       THEN /\ results' = IF output_mode = "json" THEN JsonResults(body) ELSE CsvResults(body)
            /\ fetchOutcome' = "ok"
            /\ pc' = StageAfter("fetch")
            /\ UNCHANGED <<exitStatus, raised, applog>>
       ELSE /\ fetchOutcome' = "error"
            /\ Fail(kind, <<>>)
            /\ UNCHANGED results
    /\ UNCHANGED <<config, call, ret, escaped, sid, elapsed, pollOutcome, output,
                   outputDay, attempt, attempts, files>>

\* write_results up to the loop: the first target, the parent directory.
\* day is the date datetime.now() returns when append_date makes
\* build_output_path read it (the last date read otherwise); mkdirOk is FALSE when
\* output.parent.mkdir raises
WriteInit(day, mkdirOk) ==
    /\ pc = "write_init"
    /\ IF append_date THEN day >= outputDay ELSE day = outputDay
    /\ output' = build_output_path(base_path, append_date, 0, day)
    /\ outputDay' = day
    /\ attempt' = 0
    /\ IF mkdirOk
       THEN pc' = "write" /\ UNCHANGED <<exitStatus, raised, applog>>
       ELSE Fail("OSError", <<>>)
    /\ UNCHANGED <<config, call, ret, escaped, sid, elapsed, pollOutcome, fetchOutcome,
                   results, attempts, log, files>>

NextAttempt_Skip(attempt_) == attempt_ + 2

\* attempt += 1
NextAttempt(attempt_) == attempt_ + 1

EmptyWarning_Never(r, mode) == <<>>

\* if not results: logging.warning("No results returned. ...") in csv mode
EmptyWarning(r, mode) ==
    IF mode # "json" /\ r.text = <<>> THEN <<LogRecord("WARNING", "empty")>> ELSE <<>>

\* write_results, one iteration of the loop. outcome is what the file system
\* does: "ok", "PermissionError" (raised by the open), "OSErrorOpen" (another
\* error raised by the open) or "OSErrorWrite" (an error raised after the
\* open created or truncated the file, n characters written); day is the
\* date datetime.now() returns in the except clause
WriteAttempt(outcome, n, day) ==
    /\ pc = "write"
    /\ IF append_date /\ CaughtByRetry(outcome) THEN day >= outputDay ELSE day = outputDay
    /\ n = CASE outcome = "ok" -> Len(WrittenText(results, output_mode))
             [] outcome = "OSErrorWrite" -> n
             [] OTHER -> 0
    /\ (outcome = "OSErrorWrite" =>
            n < Len(WrittenText(results, output_mode)) \/ n = 0)
    /\ (CaughtByRetry(outcome) => attempt < MaxAttempts)
    /\ log' = Append(log, Event("write", "", NoSignals))
    /\ attempts' = Append(attempts, [name |-> output, day |-> outputDay, outcome |-> outcome])
    /\ files' = IF outcome \in {"ok", "OSErrorWrite"}
                THEN WithFile(files, output, SubSeq(WrittenText(results, output_mode), 1, n))
                ELSE files
    /\ IF outcome = "ok"
       THEN /\ IF output_mode = "json" /\ LenRaises(results)
               THEN FailWith(applog \o EmptyWarning(results, output_mode), "TypeError", <<>>)
               ELSE /\ pc' = StageAfter("write")
                    /\ exitStatus' = 0
                    /\ applog' = applog \o EmptyWarning(results, output_mode)
                    /\ UNCHANGED raised
            /\ UNCHANGED <<attempt, output, outputDay>>
       ELSE IF CaughtByRetry(outcome)
       THEN /\ attempt' = NextAttempt(attempt)
            /\ output' = NextCandidate(base_path, output, append_date, NextAttempt(attempt), day)
            /\ outputDay' = day
            /\ applog' = applog \o EmptyWarning(results, output_mode)
                                 \o <<LogRecord("WARNING", "retry")>>
            /\ UNCHANGED <<pc, exitStatus, raised>>
       ELSE /\ FailWith(applog \o EmptyWarning(results, output_mode), "OSError", <<>>)
            /\ UNCHANGED <<attempt, output, outputDay>>
    /\ UNCHANGED <<config, call, ret, escaped, sid, elapsed, pollOutcome, fetchOutcome, results>>

Next ==
    \/ \E cfg \in ConfigFiles : StartRun(cfg)
    \/ \E kind \in {"ok", "HTTPError"}, s \in SidValues :
         /\ (s.has = (s.val # ""))
         /\ (kind # "ok" => s = NoSid)
         /\ CreateSearchJob(kind, s)
    \/ PollTimeout
    \/ \E kind \in {"ok", "HTTPError", "KeyError"}, content \in Contents :
         /\ (kind # "ok" => content = NoContent)
         /\ PollStatus(kind, content)
    \/ Sleep
    \/ \E kind \in {"ok", "HTTPError"},
          body \in IF output_mode = "json" THEN JsonBodies ELSE CsvBodies :
         /\ (kind # "ok" => body = CHOOSE b \in (IF output_mode = "json" THEN JsonBodies ELSE CsvBodies) : TRUE)
         /\ FetchResults(kind, body)
    \/ \E day \in Days, mkdirOk \in BOOLEAN : WriteInit(day, mkdirOk)
    \/ \E outcome \in {"ok", "PermissionError", "OSErrorOpen", "OSErrorWrite"},
          n \in 0..Len(WrittenText(results, output_mode)), day \in Days :
         WriteAttempt(outcome, n, day)

Spec == Init /\ [][Next]_vars

\* ------------------------------------------------------ reading the history
EventIdx(ev) == {i \in 1..Len(log) : log[i].ev = ev}

Count(ev) == Cardinality(EventIdx(ev))

\* position of the last status request in the log, 0 when there is none
LastStatus == IF EventIdx("status") = {} THEN 0
              ELSE CHOOSE i \in EventIdx("status") : \A j \in EventIdx("status") : j <= i

\* a response carrying a success signal: isDone true, or dispatchState "done"
SuccessSignal(resp) == resp.done \/ resp.state = "done"

\* a response with dispatchState "failed" or "canceled"
FailureSignal(resp) == resp.state \in {"failed", "canceled"}

NonTerminalIdx ==
    {i \in EventIdx("status") :
        log[i].resp.ok /\ ~SuccessSignal(log[i].resp) /\ ~FailureSignal(log[i].resp)}

\* the creation response was a 2xx body without a "sid" field
CreatedWithoutSid ==
    /\ log # <<>>
    /\ log[1].ev = "create"
    /\ log[1].resp.ok
    /\ log[1].addr = "None"

StageRank(ev) ==
    CASE ev = "create" -> 1
      [] ev \in {"status", "sleep"} -> 2
      [] ev = "results" -> 3
      [] ev = "write" -> 4

\* names of the files a write attempt of this run created or truncated
Touched == {attempts[i].name : i \in {j \in 1..Len(attempts) :
                                        attempts[j].outcome \in {"ok", "OSErrorWrite"}}}

Finished == pc = "exit"

\* --------------------------------------------------------------- the claims

\* C1: the events of a run occur in the order submit, status polls (with their
\* sleeps), results fetch, write attempts; a stage never follows a later one,
\* the results request comes only after wait_for_job returned success, and a
\* write attempt only after fetch_results returned.
C1_StagesInOrder ==
    /\ \A i, j \in 1..Len(log) : i < j => StageRank(log[i].ev) <= StageRank(log[j].ev)
    /\ Count("create") <= 1
    /\ Count("results") <= 1
    /\ (log # <<>> => log[1].ev = "create")
    /\ (Count("status") > 0 => log[1].resp.ok)
    /\ (Count("results") > 0 =>
            /\ pollOutcome = "success"
            /\ LastStatus > 0
            /\ \A i \in EventIdx("results") : i = LastStatus + 1)
    /\ (Count("write") > 0 => fetchOutcome = "ok" /\ Count("results") = 1)
    /\ (pc \in {"write_init", "write"} => fetchOutcome = "ok")
    /\ (pc = "fetch" => pollOutcome = "success")

C1_Witness ==
    /\ Finished /\ exitStatus = 0
    /\ Count("sleep") >= 1
    /\ Count("write") >= 2

\* C2: whenever a status response has dispatchState "failed" or "canceled"
\* (ignoring case), whatever its other fields, wait_for_job raises the
\* job-failed error carrying that state, and the run issues no results
\* request and makes no write attempt.
C2_FailedStateAlwaysFails ==
    \A i \in EventIdx("status") :
        FailureSignal(log[i].resp) =>
            /\ pollOutcome = "failed"
            /\ raised.type = "RuntimeError"
            /\ Count("results") = 0
            /\ Count("write") = 0

\* C3: wait_for_job returns successfully on a status response exactly when
\* that response has isDone true or a dispatchState that is "done" ignoring
\* case; no other response yields success.
C3_SuccessIffDoneSignal ==
    \A i \in EventIdx("status") :
        SuccessSignal(log[i].resp) <=> (i = LastStatus /\ pollOutcome = "success")

C3_Witness ==
    /\ pollOutcome = "success"
    /\ ~log[LastStatus].resp.done
    /\ log[LastStatus].resp.state = "done"
    /\ Count("status") >= 2

\* C4: when the creation response has no "sid" field, create_search_job
\* raises, so there is no status request, no results request and no write
\* attempt, and the run exits with status 1.
C4_MissingSidIsAnError ==
    CreatedWithoutSid =>
        /\ Finished /\ exitStatus = 1
        /\ Count("status") = 0
        /\ Count("results") = 0
        /\ Count("write") = 0

\* C5: no status request is issued once the elapsed time exceeds the timeout;
\* when wait_for_job raises the timeout error the elapsed time is more than
\* timeout and at most timeout + poll; and a wait_for_job that has seen only
\* non-terminal responses ends in the timeout error and in nothing else.
C5_TimeoutWindow ==
    /\ \A i \in EventIdx("status") : log[i].at <= timeout
    /\ (pollOutcome = "timeout" =>
            /\ elapsed > timeout
            /\ elapsed <= timeout + poll
            /\ raised.type = "TimeoutError")
    /\ (/\ pollOutcome \in {"success", "failed", "error", "timeout"}
        /\ NonTerminalIdx = EventIdx("status")
        => pollOutcome = "timeout")
    /\ (NonTerminalIdx = EventIdx("status") /\ pc = "poll" /\ elapsed > timeout
        => ENABLED PollTimeout)

C5_Witness ==
    /\ pollOutcome = "timeout"
    /\ Count("status") >= 2
    /\ elapsed = timeout + poll

\* C6: when wait_for_job returns successfully after n non-terminal responses,
\* it has issued n + 1 status requests and slept n times, poll seconds each
\* (n * poll <= timeout in all), one sleep between consecutive requests and
\* none after the last; and it times out only when the requests already
\* issued, times poll, exceed the timeout, so n such responses with
\* n * poll <= timeout are always followed by request n + 1.
C6_PollsAndSleeps ==
    LET n == Cardinality(NonTerminalIdx)
    IN /\ (pollOutcome = "success" =>
            /\ Count("status") = n + 1
            /\ Count("sleep") = n
            /\ elapsed = n * poll
            /\ n * poll <= timeout
            /\ \A k \in 1..(n + 1) : log[2 * k].ev = "status" /\ log[2 * k].at = (k - 1) * poll
            /\ \A k \in 1..n : log[2 * k + 1].ev = "sleep"
            /\ LastStatus = 2 * n + 2)
       /\ (pollOutcome = "timeout" => Count("status") * poll > timeout)
       /\ (pc = "poll" /\ Count("status") * poll <= timeout => ~ENABLED PollTimeout)

C6_Witness ==
    /\ pollOutcome = "success"
    /\ Count("sleep") = 2
    /\ poll = 1

\* the name write_results tries after k permission-denied attempts: the
\* stem of the base name, the date stamp read on day when append_date is
\* set, "-k" when k > 0, then the extension part the unsuffixed target has
ExpectedCandidate(k, day) ==
    LET unsuffixed == build_output_path(base_path, append_date, 0, day)
        cut == Len(PathStem(base_path)) + (IF append_date THEN 1 + Len(DateStamp(day)) ELSE 0)
    IN SubSeq(unsuffixed, 1, cut)
         \o (IF k = 0 THEN <<>> ELSE <<"-">> \o ToStr(k))
         \o SubSeq(unsuffixed, cut + 1, Len(unsuffixed))

C8_OtherIOErrorIsFatal ==
    \A i \in 1..Len(attempts) :
        attempts[i].outcome \in {"OSErrorOpen", "OSErrorWrite"} =>
            /\ i = Len(attempts)
            /\ Finished /\ exitStatus = 1
            /\ raised.type = "OSError"
            /\ output = attempts[i].name
            /\ attempt = i - 1

C8_Witness ==
    /\ Len(attempts) = 2
    /\ attempts[1].outcome = "PermissionError"
    /\ attempts[2].outcome = "OSErrorOpen"
    /\ Finished

\* C9: at most one job is created in a run; a successful run has issued one
\* creation request and one results request and has written one file, and
\* every status request and the results request address the sid the
\* creation response returned.
C9_OneJobOneFetchOneFile ==
    /\ Count("create") <= 1
    /\ (Finished /\ exitStatus = 0 =>
          /\ Count("create") = 1
          /\ Count("results") = 1
          /\ Cardinality(Touched) = 1
          /\ \A f \in (DOMAIN files) \cup (DOMAIN files0) :
                f \notin Touched => f \in DOMAIN files /\ f \in DOMAIN files0 /\ files[f] = files0[f]
          /\ \A i \in EventIdx("status") \cup EventIdx("results") : log[i].addr = log[1].addr)

C9_Witness ==
    /\ Finished /\ exitStatus = 0
    /\ Count("status") >= 2
    /\ Len(attempts) >= 2
    /\ log[1].addr = "sid2"

\* C10: a run that ends in failure leaves the output files and their
\* contents exactly as they were when the run started.
C10_FailedRunLeavesFilesAlone ==
    Finished /\ exitStatus = 1 => files = files0

\* ------------------------------------------------ claims about the whole run
ErrorRecords == {i \in 1..Len(applog) : applog[i].level = "ERROR"}

LastAttempt == attempts[Len(attempts)]

\* some stage of the try block raised, read off the history
StageRaised ==
    \/ (log # <<>> /\ log[1].ev = "create" /\ ~log[1].resp.ok)
    \/ pollOutcome \in {"failed", "timeout", "error"}
    \/ fetchOutcome = "error"
    \/ (pc = "exit" /\ fetchOutcome = "ok" /\ attempts = <<>>)
    \/ (attempts # <<>> /\ LastAttempt.outcome \in {"OSErrorOpen", "OSErrorWrite"})
    \/ (attempts # <<>> /\ LastAttempt.outcome = "ok" /\ output_mode = "json" /\ results.kind = "null")

C12_EveryErrorIsLogged ==
    /\ escaped = NoError
    /\ (Finished /\ exitStatus = 1 => raised # NoError /\ ErrorRecords # {})

\* the row tokens of a written json text, in order
RowsIn(text) == SelectSeq(text, LAMBDA t : t \in {"{r1}", "{r2}"})

\* C17: after a successful write the file holds, in json mode, the
\* serialisation of the whole result list (for the empty list the two
\* characters of an empty array, never an empty file) and, in csv mode, the
\* result text verbatim; an empty csv text gives an empty file and a logged
\* warning, and that warning is logged for no other content.
C17_ContentByMode ==
    /\ (attempts # <<>> /\ LastAttempt.outcome = "ok" =>
          LET text == files[LastAttempt.name]
          IN /\ (output_mode = "json" /\ results.kind = "list" =>
                    /\ Len(text) >= 2
                    /\ text[1] = "[" /\ text[Len(text)] = "]"
                    /\ RowsIn(text) = results.rows
                    /\ (results.rows = <<>> => text = <<"[", "]">>))
             /\ (output_mode = "csv" =>
                    /\ text = results.text
                    /\ (results.text = <<>> =>
                          \E i \in 1..Len(applog) : applog[i] = LogRecord("WARNING", "empty"))))
    /\ ((\E i \in 1..Len(applog) : applog[i] = LogRecord("WARNING", "empty")) =>
            output_mode = "csv" /\ results.text = <<>>)

C17_Witness ==
    /\ attempts # <<>> /\ LastAttempt.outcome = "ok"
    /\ output_mode = "csv"
    /\ results.text = <<>>
    /\ files[LastAttempt.name] = <<>>
    /\ files0[LastAttempt.name] # <<>>

\* C18: a request that ends in a transport failure (or an unreadable body)
\* is the last thing the run does: no request and no write attempt follows
\* it, and the run exits with status 1.
C18_TransportFailureIsFinal ==
    \A i \in 1..Len(log) :
        log[i].ev \in {"create", "status", "results"} /\ ~log[i].resp.ok =>
            /\ i = Len(log)
            /\ Count("write") = 0
            /\ Finished /\ exitStatus = 1
            /\ raised.type \in {"HTTPError", "KeyError"}

C18_Witness ==
    /\ raised.type = "HTTPError"
    /\ pollOutcome = "error"
    /\ Count("status") >= 2

\* C19: write_results goes on exactly as long as every attempt is
\* permission-denied: it has then not ended and the run has no exit status,
\* the suffix number is the number of attempts made, no path is tried twice,
\* and another attempt is always possible (the loop has no cap of its own);
\* an attempt that ends otherwise is the last one.
C19_RetryUntilNotDenied ==
    LET denied == {i \in 1..Len(attempts) : attempts[i].outcome = "PermissionError"}
    IN /\ (attempts # <<>> /\ denied = 1..Len(attempts) =>
                /\ pc = "write"
                /\ exitStatus = -1
                /\ attempt = Len(attempts)
                /\ \A i \in 1..Len(attempts) : attempts[i].name # output)
       /\ (denied # 1..Len(attempts) =>
                /\ denied = 1..(Len(attempts) - 1)
                /\ Finished)
       /\ \A i, j \in 1..Len(attempts) : i # j => attempts[i].name # attempts[j].name
       /\ (pc = "write" /\ attempt < MaxAttempts =>
                ENABLED WriteAttempt("PermissionError", 0, outputDay))

C19_Witness ==
    /\ pc = "write"
    /\ Len(attempts) = 2
    /\ append_date
    /\ attempts[1].day # outputDay

\* C20: wait_for_job issues at most floor(timeout / poll) + 1 status requests
\* and never sleeps more often than it polls; while it runs its next step is
\* always possible, so it ends; and once it has ended no status request and
\* no sleep follows.
C20_PollTerminates ==
    /\ Count("status") <= (timeout \div poll) + 1
    /\ Count("sleep") <= Count("status")
    /\ (pc = "sleep" => ENABLED Sleep)
    /\ (pc = "poll" =>
            IF Count("status") = (timeout \div poll) + 1
            THEN ENABLED PollTimeout
            ELSE ENABLED PollStatus("ok", NoContent))
    /\ (pollOutcome \in {"failed", "timeout", "error"} => Finished)
    /\ (pollOutcome \in {"success", "failed", "timeout", "error"} =>
            /\ pc \notin {"poll", "sleep"}
            /\ (pollOutcome # "timeout" =>
                  \A i \in 1..Len(log) : i > LastStatus => log[i].ev \notin {"status", "sleep"}))

C20_Witness ==
    /\ pollOutcome = "timeout"
    /\ poll = 1
    /\ Count("status") = timeout + 1
    /\ Count("status") >= 3

\* ------------------------------------------------- the helpers on their own
SearchCalls == {[fn |-> "create_search_job", search |-> s] : s \in SearchTexts}

MaskCalls == {[fn |-> "mask_proxy_credentials", proxy_url |-> u] : u \in ProxyUrls}

ResolveCalls ==
    {[fn |-> "resolve_proxies", proxy_value |-> v, env_proxies |-> e] :
        v \in ProxyValues, e \in EnvProxies}

TestCalls ==
    {[fn |-> "test_connection", proxy_value |-> v, env_proxies |-> e, probeOk |-> ok] :
        v \in ProxyValues, e \in EnvProxies, ok \in BOOLEAN}

\* one helper is called with arguments from the explored sets; no run of
\* main is in progress
InitHelpers ==
    /\ call \in SearchCalls \cup MaskCalls \cup ResolveCalls \cup TestCalls
    /\ ret = NoReturn
    /\ pc = "helper"
    /\ exitStatus = -1
    /\ raised = NoError
    /\ escaped = NoError
    /\ applog = <<>>
    /\ poll = 1
    /\ timeout = 0
    /\ output_mode = "json"
    /\ base_path = <<"o">>
    /\ append_date = FALSE
    /\ sid = NoSid
    /\ elapsed = 0
    /\ pollOutcome = "none"
    /\ fetchOutcome = "none"
    /\ results = NoResults
    /\ output = <<>>
    /\ outputDay = 1
    /\ attempt = 0
    /\ attempts = <<>>
    /\ log = <<>>
    /\ files0 = NoFiles
    /\ files = NoFiles

run == <<pc, exitStatus, raised, escaped, applog, config, sid, elapsed, pollOutcome,
         fetchOutcome, results, output, outputDay, attempt, attempts, log, files>>

\* create_search_job up to the request: the search text it submits
NormalizeSearch ==
    /\ call.fn = "create_search_job" /\ ~ret.done
    /\ ret' = [done |-> TRUE, submitted |-> SubmittedSearch(call.search)]
    /\ UNCHANGED <<call, run>>

MaskProxyCredentials ==
    /\ call.fn = "mask_proxy_credentials" /\ ~ret.done
    /\ ret' = [done |-> TRUE, out |-> mask_proxy_credentials(call.proxy_url)]
    /\ UNCHANGED <<call, run>>

ResolveProxies ==
    /\ call.fn = "resolve_proxies" /\ ~ret.done
    /\ ret' = [done |-> TRUE, out |-> resolve_proxies(call.proxy_value, call.env_proxies)]
    /\ UNCHANGED <<call, run>>

TestConnection ==
    /\ call.fn = "test_connection" /\ ~ret.done
    /\ ret' = [done |-> TRUE,
               out |-> test_connection(call.proxy_value, call.env_proxies, call.probeOk)]
    /\ UNCHANGED <<call, run>>

NextHelpers ==
    \/ NormalizeSearch
    \/ MaskProxyCredentials
    \/ ResolveProxies
    \/ TestConnection

SpecHelpers == InitHelpers /\ [][NextHelpers]_vars

\* a text reveals a credential when the credential is not empty and occurs in it
Reveals(text, credential) == credential.text # <<>> /\ Contains(text, credential.text)

\* the credentials of a proxy URL as urlparse reads them
Credentials(proxy_url) ==
    {Username(urlparse(proxy_url).netloc), Password(urlparse(proxy_url).netloc)}

\* C13: the search text create_search_job submits starts with "search "
\* at its first character, whatever the casing, for every search text given.
C13_SubmittedStartsWithPrefix ==
    call.fn = "create_search_job" /\ ret.done =>
        StartsWith(Lower(ret.submitted), SearchPrefix)

\* C14: the text mask_proxy_credentials returns contains neither the password
\* nor the non-empty username of the proxy URL it was given, also when the
\* URL has a password and an empty username.
C14_MaskHidesCredentials ==
    call.fn = "mask_proxy_credentials" /\ ret.done /\ ~ret.out.raises
    /\ ~urlparse(call.proxy_url).raises =>
        \A c \in Credentials(call.proxy_url) : ~Reveals(ret.out.value, c)

\* C15: resolve_proxies returns, for a configured value that is not empty
\* after stripping, the dict mapping http and https to the stripped value,
\* whatever the environment; otherwise the environment's proxies when there
\* are any; otherwise None.
C15_ProxyPrecedence ==
    call.fn = "resolve_proxies" /\ ret.done =>
        LET value == Strip(call.proxy_value.text)
        IN /\ ~ret.out.raises
           /\ IF value # <<>>
              THEN /\ ~ret.out.none
                   /\ ret.out.proxies = [k \in {K_http, K_https} |-> value]
              ELSE IF DOMAIN call.env_proxies # {}
              THEN ~ret.out.none /\ ret.out.proxies = call.env_proxies
              ELSE ret.out.none

\* C16: when the probe of test_connection fails, no line it prints contains
\* the username or the password of a proxy URL of the config or of the
\* environment.
C16_TesterPrintsMasked ==
    call.fn = "test_connection" /\ ret.done /\ ~ret.out.raises /\ ~call.probeOk =>
        \A line \in ret.out.printed :
            \A url \in {Strip(call.proxy_value.text)}
                        \cup {call.env_proxies[k] : k \in DOMAIN call.env_proxies} :
                \A c \in Credentials(url) : ~Reveals(line, c)

====
